---- MODULE Spec2Model ----
(***************************************************************************)
(* The query-answering pipeline of the agentic RAG service:                *)
(*   QueryAnalyzer.analyze -> QueryDecomposer.decompose ->                 *)
(*   SemanticRetriever.retrieve_for_multiple_queries ->                    *)
(*   ContextAggregator.aggregate / format_context ->                       *)
(*   AnswerSynthesizer.synthesize -> QueryResponse                         *)
(* as driven by query_documents (app/main.py).                             *)
(*                                                                         *)
(* Units: a similarity s in [0,1] is the integer 10000*s, a distance d the *)
(* integer 10000*d.  The language model, the embedder and the vector store *)
(* are external: each of their answers is a nondeterministic choice.       *)
(***************************************************************************)
EXTENDS Integers, Sequences, FiniteSets, TLC

VARIABLES
    pc,                  \* position of the query cycle inside query_documents
    question,            \* request.question
    document_filter,     \* request.document_filter ("" models None)
    top_k,               \* top_k of retrieve_for_multiple_queries (PyNone = not given)
    max_context_tokens,  \* ContextAggregator.max_context_tokens
    classifier_reply,    \* what the model call inside analyze produced
    analysis,            \* analysis = query_analyzer.analyze(question)
    decomposer_reply,    \* what the model call inside decompose produced
    sub_questions,       \* sub_questions of query_documents
    retr_idx,            \* loop position of retrieve_for_multiple_queries
    retr_results,        \* results_by_query local to retrieve_for_multiple_queries
    retr_fault,          \* the fault raised inside the retrieval loop ("" = none)
    results_by_query,    \* results_by_query of query_documents
    aggregated_chunks,   \* aggregated_chunks of query_documents
    formatted_context,   \* formatted_context of query_documents
    synthesizer_reply,   \* what the model call inside synthesize produced
    synthesis_result,    \* synthesis_result of query_documents
    response,            \* what the caller of /query receives
    calls,               \* history: the pipeline stages called so far, in order
    retrievals,          \* history: what each call of retrieve did and returned
    suspended            \* the locals of the other query cycles in flight

vars == <<pc, question, document_filter, top_k, max_context_tokens, classifier_reply,
          analysis, decomposer_reply, sub_questions, retr_idx, retr_results,
          retr_fault, results_by_query, aggregated_chunks, formatted_context,
          synthesizer_reply, synthesis_result, response, calls, retrievals,
          suspended>>

---------------------------------------------------------------------------
(* Bounds of the model *)

\* budgets max_context_tokens = 1 .. MaxTokens are explored
MaxTokens == 2
\* result maps handed to aggregate on their own hold at most MaxTotal chunks
MaxTotal == 3
\* ... under at most MaxSubQ sub-questions
MaxSubQ == 2
\* the retriever's configured top_k (settings.top_k, scaled down)
MaxTopK == 2

(* Program constants *)

\* "1 token ~ 4 characters"
CharsPerToken == 4
\* settings.similarity_threshold = 0.7
SimilarityThreshold == 7000

---------------------------------------------------------------------------
(* Chunks: the dictionaries WeaviateVectorStore.search builds *)

Chunk(content, document_name, page_number, content_type, similarity) ==
    [content |-> content, document_name |-> document_name,
     page_number |-> page_number, content_type |-> content_type,
     similarity |-> similarity]

Contents == {"a", "bb", "ccccc"}

\* Python's None where an int is optional
PyNone == -1

\* provenance and score of a chunk, independent of its content
Variants ==
    { [document_name |-> "d1.pdf", page_number |-> 1, content_type |-> "text",  similarity |-> 9000],
      [document_name |-> "d2.pdf", page_number |-> PyNone, content_type |-> "table", similarity |-> 7004] }

ChunkUniverse ==
    { Chunk(c, v.document_name, v.page_number, v.content_type, v.similarity) :
        c \in Contents, v \in Variants }

\* all sequences over S of length at most n
SeqsUpTo(S, n) == UNION { [1..k -> S] : k \in 0..n }

---------------------------------------------------------------------------
(* An insertion-ordered dict (a Python dict): a sequence of key/value pairs *)

DictKeys(d) == { d[i].query : i \in 1..Len(d) }

DictSet(d, k, v) ==
    IF k \in DictKeys(d)
    THEN [i \in 1..Len(d) |-> IF d[i].query = k THEN [query |-> k, chunks |-> v] ELSE d[i]]
    ELSE Append(d, [query |-> k, chunks |-> v])

---------------------------------------------------------------------------
(* ContextAggregator.aggregate *)

\* the order in which the nested loops of aggregate visit the chunks
RECURSIVE VisitOrder(_)
VisitOrder(results) ==
    IF results = <<>> THEN <<>>
    ELSE Head(results).chunks \o VisitOrder(Tail(results))

\* faulty variant: a duplicate replaces the instance seen before (last occurrence wins)
RECURSIVE DedupLastWins(_, _, _)
DedupLastWins(chunks, seen_content, all_chunks) ==
    IF chunks = <<>> THEN all_chunks
    ELSE LET chunk == Head(chunks)
             content == chunk.content
         IN IF content \notin seen_content
            THEN DedupLastWins(Tail(chunks), seen_content \cup {content}, Append(all_chunks, chunk))
            ELSE DedupLastWins(Tail(chunks), seen_content,
                    [i \in 1..Len(all_chunks) |->
                        IF all_chunks[i].content = content THEN chunk ELSE all_chunks[i]])

\* the loop body "if content not in seen_content: ..."
RECURSIVE Dedup(_, _, _)
Dedup(chunks, seen_content, all_chunks) ==
    IF chunks = <<>> THEN all_chunks
    ELSE LET chunk == Head(chunks)
             content == chunk.content
         IN IF content \notin seen_content
            THEN Dedup(Tail(chunks), seen_content \cup {content}, Append(all_chunks, chunk))
            ELSE Dedup(Tail(chunks), seen_content, all_chunks)

\* faulty variant: the new chunk goes before the chunks of equal similarity
RECURSIVE InsertBeforeTies(_, _)
InsertBeforeTies(sorted, chunk) ==
    IF sorted = <<>> THEN <<chunk>>
    ELSE IF Head(sorted).similarity > chunk.similarity
         THEN <<Head(sorted)>> \o InsertBeforeTies(Tail(sorted), chunk)
         ELSE <<chunk>> \o sorted

\* place chunk behind every chunk whose similarity is at least its own
RECURSIVE InsertDesc(_, _)
InsertDesc(sorted, chunk) ==
    IF sorted = <<>> THEN <<chunk>>
    ELSE IF Head(sorted).similarity >= chunk.similarity
         THEN <<Head(sorted)>> \o InsertDesc(Tail(sorted), chunk)
         ELSE <<chunk>> \o sorted

\* faulty variant: the chunks stay in visiting order
KeepVisitOrder(chunks, sorted) == sorted \o chunks

\* all_chunks.sort(key=similarity, reverse=True): a stable sort, descending
RECURSIVE SortBySimilarity(_, _)
SortBySimilarity(chunks, sorted) ==
    IF chunks = <<>> THEN sorted
    ELSE SortBySimilarity(Tail(chunks), InsertDesc(sorted, Head(chunks)))

\* faulty variant: a chunk over the budget is skipped and packing goes on
RECURSIVE PackSkipping(_, _, _, _)
PackSkipping(all_chunks, aggregated, total_chars, max_chars) ==
    IF all_chunks = <<>> THEN aggregated
    ELSE LET chunk == Head(all_chunks)
             chunk_chars == Len(chunk.content)
         IN IF total_chars + chunk_chars <= max_chars
            THEN PackSkipping(Tail(all_chunks), Append(aggregated, chunk),
                              total_chars + chunk_chars, max_chars)
            ELSE PackSkipping(Tail(all_chunks), aggregated, total_chars, max_chars)

\* faulty variant: the first chunk is kept whatever its length
RECURSIVE PackAtLeastOne(_, _, _, _)
PackAtLeastOne(all_chunks, aggregated, total_chars, max_chars) ==
    IF all_chunks = <<>> THEN aggregated
    ELSE LET chunk == Head(all_chunks)
             chunk_chars == Len(chunk.content)
         IN IF aggregated = <<>> \/ total_chars + chunk_chars <= max_chars
            THEN PackAtLeastOne(Tail(all_chunks), Append(aggregated, chunk),
                                total_chars + chunk_chars, max_chars)
            ELSE aggregated

\* the packing loop: append while the running total fits, break at the first misfit
RECURSIVE Pack(_, _, _, _)
Pack(all_chunks, aggregated, total_chars, max_chars) ==
    IF all_chunks = <<>> THEN aggregated
    ELSE LET chunk == Head(all_chunks)
             chunk_chars == Len(chunk.content)
         IN IF total_chars + chunk_chars <= max_chars
            THEN Pack(Tail(all_chunks), Append(aggregated, chunk),
                      total_chars + chunk_chars, max_chars)
            ELSE aggregated

aggregate(results, max_tokens) ==
    LET all_chunks == Dedup(VisitOrder(results), {}, <<>>)
        ranked == SortBySimilarity(all_chunks, <<>>)
        max_chars == max_tokens * CharsPerToken
    IN Pack(ranked, <<>>, 0, max_chars)

---------------------------------------------------------------------------
(* JSON values as json.loads builds them.  Every value has the same shape: *)
(* t is the Python type, b/n/s the payload of a bool/int/str, items the    *)
(* elements of a list, fields the key/value pairs of a dict.               *)

J(t, b, n, s, items, fields) ==
    [t |-> t, b |-> b, n |-> n, s |-> s, items |-> items, fields |-> fields]

JNull == J("null", FALSE, 0, "", <<>>, <<>>)
JBool(b) == J("bool", b, 0, "", <<>>, <<>>)
JNum(n) == J("num", FALSE, n, "", <<>>, <<>>)
JStr(s) == J("str", FALSE, 0, s, <<>>, <<>>)
JList(items) == J("list", FALSE, 0, "", items, <<>>)
JObj(fields) == J("obj", FALSE, 0, "", <<>>, fields)
KV(k, v) == [k |-> k, v |-> v]

HasKey(obj, k) == \E i \in 1..Len(obj.fields) : obj.fields[i].k = k
GetKey(obj, k) == obj.fields[CHOOSE i \in 1..Len(obj.fields) : obj.fields[i].k = k].v

\* Python truthiness: bool(v)
Truthy(v) ==
    CASE v.t = "null" -> FALSE
      [] v.t = "bool" -> v.b
      [] v.t = "num"  -> v.n # 0
      [] v.t = "str"  -> v.s # ""
      [] v.t = "list" -> v.items # <<>>
      [] v.t = "obj"  -> v.fields # <<>>

\* len(v) raises TypeError for None, bool and int
HasLen(v) == v.t \in {"str", "list", "obj"}

---------------------------------------------------------------------------
(* The language model's replies: a fault with its message, or a text *)

Fault(msg) == [kind |-> "fault", msg |-> msg, content |-> ""]
Text(content) == [kind |-> "text", msg |-> "", content |-> content]
NoReply == [kind |-> "none", msg |-> "", content |-> ""]

FaultMessages == {"timeout"}

Q0 == "What is X and what is Y?"
QX == "What is X?"
QY == "What is Y?"
Questions == {Q0}

\* replies to the classification prompt
K_prose     == "The query is complex."
K_true      == "{\"is_complex\": true, \"reasoning\": \"two intents\"}"
K_false     == "{\"is_complex\": false, \"reasoning\": \"one intent\"}"
K_noreason  == "{\"is_complex\": true}"
K_noverdict == "{\"reasoning\": \"two intents\"}"
K_list      == "[true, \"two intents\"]"
K_maybe     == "{\"is_complex\": \"maybe\", \"reasoning\": \"two intents\"}"
K_null      == "{\"is_complex\": null, \"reasoning\": \"unsure\"}"

ClassifierTexts ==
    {K_prose, K_true, K_false, K_noreason, K_noverdict, K_list, K_maybe, K_null}

\* replies to the decomposition prompt
D_prose   == "1. What is X? 2. What is Y?"
D_two     == "{\"sub_questions\": [\"What is X?\", \"What is Y?\"]}"
D_one     == "{\"sub_questions\": [\"What is X?\"]}"
D_same    == "{\"sub_questions\": [\"What is X?\", \"What is X?\"]}"
D_empty   == "{\"sub_questions\": []}"
D_nofield == "{\"questions\": [\"What is X?\"]}"
D_list    == "[\"What is X?\", \"What is Y?\"]"
D_mixed   == "{\"sub_questions\": [\"What is X?\", 2]}"
D_null    == "{\"sub_questions\": null}"

DecomposerTexts ==
    {D_prose, D_two, D_one, D_same, D_empty, D_nofield, D_list, D_mixed, D_null}

\* replies to the synthesis prompt
S_answer == " X is 1 [Source 1]. \n"
S_absent == "The information is not available in the provided documents"

SynthesizerTexts == {S_answer, S_absent}

Decoded(v) == [ok |-> TRUE, v |-> v]
JSONDecodeError == [ok |-> FALSE, v |-> JNull]

\* json.loads on the texts above
json_loads(content) ==
    CASE content = K_true      -> Decoded(JObj(<<KV("is_complex", JBool(TRUE)), KV("reasoning", JStr("two intents"))>>))
      [] content = K_false     -> Decoded(JObj(<<KV("is_complex", JBool(FALSE)), KV("reasoning", JStr("one intent"))>>))
      [] content = K_noreason  -> Decoded(JObj(<<KV("is_complex", JBool(TRUE))>>))
      [] content = K_noverdict -> Decoded(JObj(<<KV("reasoning", JStr("two intents"))>>))
      [] content = K_list      -> Decoded(JList(<<JBool(TRUE), JStr("two intents")>>))
      [] content = K_maybe     -> Decoded(JObj(<<KV("is_complex", JStr("maybe")), KV("reasoning", JStr("two intents"))>>))
      [] content = K_null      -> Decoded(JObj(<<KV("is_complex", JNull), KV("reasoning", JStr("unsure"))>>))
      [] content = D_two       -> Decoded(JObj(<<KV("sub_questions", JList(<<JStr(QX), JStr(QY)>>))>>))
      [] content = D_one       -> Decoded(JObj(<<KV("sub_questions", JList(<<JStr(QX)>>))>>))
      [] content = D_same      -> Decoded(JObj(<<KV("sub_questions", JList(<<JStr(QX), JStr(QX)>>))>>))
      [] content = D_empty     -> Decoded(JObj(<<KV("sub_questions", JList(<<>>))>>))
      [] content = D_nofield   -> Decoded(JObj(<<KV("questions", JList(<<JStr(QX)>>))>>))
      [] content = D_list      -> Decoded(JList(<<JStr(QX), JStr(QY)>>))
      [] content = D_mixed     -> Decoded(JObj(<<KV("sub_questions", JList(<<JStr(QX), JNum(2)>>))>>))
      [] content = D_null      -> Decoded(JObj(<<KV("sub_questions", JNull)>>))
      [] OTHER                 -> JSONDecodeError

\* str.strip() on the texts above
strip(content) ==
    CASE content = S_answer -> "X is 1 [Source 1]."
      [] OTHER -> content

---------------------------------------------------------------------------
(* QueryAnalyzer.analyze *)

\* str(e) of the exception result['is_complex'] / result['reasoning'] raises
SubscriptError(result, key) ==
    CASE result.t = "obj"  -> "'" \o key \o "'"
      [] result.t = "list" -> "list indices must be integers or slices, not str"
      [] result.t = "str"  -> "string indices must be integers"
      [] result.t = "num"  -> "'int' object is not subscriptable"
      [] result.t = "bool" -> "'bool' object is not subscriptable"
      [] result.t = "null" -> "'NoneType' object is not subscriptable"

Analysis(is_complex, reasoning) == [is_complex |-> is_complex, reasoning |-> reasoning]
NoAnalysis == Analysis(JNull, JNull)

\* faulty variant: the parsed object is believed even when a field is missing
analyze_trusting(query, reply) ==
    IF reply.kind = "fault"
    THEN Analysis(JBool(FALSE), JStr("Error: " \o reply.msg))
    ELSE LET parsed == json_loads(reply.content)
             result == parsed.v
         IN IF ~parsed.ok
            THEN Analysis(JBool(FALSE), JStr("Failed to parse response"))
            ELSE IF result.t # "obj"
            THEN Analysis(JBool(FALSE), JStr("Error: " \o SubscriptError(result, "is_complex")))
            ELSE Analysis(IF HasKey(result, "is_complex") THEN GetKey(result, "is_complex") ELSE JBool(TRUE),
                          IF HasKey(result, "reasoning") THEN GetKey(result, "reasoning") ELSE JStr(""))

analyze(query, reply) ==
    IF reply.kind = "fault"
    THEN \* chain.invoke raised: except Exception
         Analysis(JBool(FALSE), JStr("Error: " \o reply.msg))
    ELSE LET parsed == json_loads(reply.content)
             result == parsed.v
         IN IF ~parsed.ok
            THEN \* except json.JSONDecodeError
                 Analysis(JBool(FALSE), JStr("Failed to parse response"))
            ELSE IF result.t # "obj" \/ ~HasKey(result, "is_complex")
            THEN \* result['is_complex'] raised inside the log line
                 Analysis(JBool(FALSE), JStr("Error: " \o SubscriptError(result, "is_complex")))
            ELSE IF ~HasKey(result, "reasoning")
            THEN Analysis(JBool(FALSE), JStr("Error: " \o SubscriptError(result, "reasoning")))
            ELSE \* return result, as decoded: the field values are not inspected
                 Analysis(GetKey(result, "is_complex"), GetKey(result, "reasoning"))

---------------------------------------------------------------------------
(* QueryDecomposer.decompose *)

decompose(query, reply) ==
    IF reply.kind = "fault"
    THEN \* chain.invoke raised: except Exception
         JList(<<JStr(query)>>)
    ELSE LET parsed == json_loads(reply.content)
             result == parsed.v
         IN IF ~parsed.ok
            THEN \* except json.JSONDecodeError
                 JList(<<JStr(query)>>)
            ELSE IF result.t # "obj"
            THEN \* result.get raised AttributeError: except Exception
                 JList(<<JStr(query)>>)
            ELSE LET sub_qs == IF HasKey(result, "sub_questions")
                               THEN GetKey(result, "sub_questions")
                               ELSE JList(<<>>)     \* result.get("sub_questions", [])
                 IN IF ~HasLen(sub_qs)
                    THEN \* len(sub_questions) raised TypeError: except Exception
                         JList(<<JStr(query)>>)
                    ELSE sub_qs

---------------------------------------------------------------------------
(* WeaviateVectorStore.search and SemanticRetriever.retrieve *)

\* the chunks DocumentChunker hands to add_chunks: a passage of page 1, and a
\* table, for which the extractor gives page_number None
StoreContents == {"a", "ccccc"}

IngestedChunks ==
    { [content |-> "a",
       metadata |-> [document_name |-> "d1.pdf", page_number |-> 1, content_type |-> "text"]],
      [content |-> "ccccc",
       metadata |-> [document_name |-> "d1.pdf", page_number |-> PyNone, content_type |-> "table"]] }

\* add_chunks: the properties stored for a chunk; page_number ... or 0
data_object(chunk) ==
    [content |-> chunk.content,
     document_name |-> chunk.metadata.document_name,
     page_number |-> IF chunk.metadata.page_number \in {PyNone, 0}
                     THEN 0 ELSE chunk.metadata.page_number,
     content_type |-> chunk.metadata.content_type]

\* an object of response.objects: its properties and metadata.distance
StoreObjects ==
    { [content |-> data_object(chunk).content,
       document_name |-> data_object(chunk).document_name,
       page_number |-> data_object(chunk).page_number,
       content_type |-> data_object(chunk).content_type,
       distance |-> d] :
        chunk \in IngestedChunks, d \in {1000, 2996, 3004} }

\* what near_vector(limit = k, filters = ...) can answer: at most k objects,
\* no stored chunk twice, nearest first, all of the filtered document when a
\* filter is given
StoreResponses(k, filter) ==
    { objs \in SeqsUpTo(StoreObjects, IF k < Cardinality(IngestedChunks)
                                      THEN k ELSE Cardinality(IngestedChunks)) :
        /\ \A i, j \in 1..Len(objs) : i < j => objs[i].content # objs[j].content
        /\ \A i \in 1..Len(objs) - 1 : objs[i].distance <= objs[i + 1].distance
        /\ filter # "" => \A i \in 1..Len(objs) : objs[i].document_name = filter }

\* faulty variant: every object is returned, whatever its similarity
RECURSIVE search_unfiltered(_, _)
search_unfiltered(objects, similarity_threshold) ==
    IF objects = <<>> THEN <<>>
    ELSE LET obj == Head(objects)
         IN <<Chunk(obj.content, obj.document_name, obj.page_number,
                    obj.content_type, 10000 - obj.distance)>>
            \o search_unfiltered(Tail(objects), similarity_threshold)

\* the result loop of search: similarity = 1 - distance, kept when >= threshold
RECURSIVE search(_, _)
search(objects, similarity_threshold) ==
    IF objects = <<>> THEN <<>>
    ELSE LET obj == Head(objects)
             similarity == 10000 - obj.distance
             rest == search(Tail(objects), similarity_threshold)
         IN IF similarity >= similarity_threshold
            THEN <<Chunk(obj.content, obj.document_name, obj.page_number,
                         obj.content_type, similarity)>> \o rest
            ELSE rest

\* SemanticRetriever.top_k
self_top_k == MaxTopK

\* retrieve: k = top_k or self.top_k
limit_of(k) == IF k # PyNone /\ k # 0 THEN k ELSE self_top_k

\* query_documents passes no top_k to retrieve_for_multiple_queries
NoTopK == PyNone

\* generate_single_embedding(query): the vector stands for the text it encodes
Embedding(query) == [of |-> query]

\* vector_store.search(query_embedding=, top_k=, document_filter=, similarity_threshold=)
SearchCall(query_embedding, k, filter, threshold) ==
    [query_embedding |-> query_embedding, top_k |-> k,
     document_filter |-> filter, similarity_threshold |-> threshold]

\* one call of retrieve: its arguments, the calls it made to the embedder and
\* to the store, what the store's search gave and what retrieve returned
Retrieval(query, k, filter, embedded, searched, found, returned, ok) ==
    [query |-> query, top_k |-> k, document_filter |-> filter,
     embedded |-> embedded, searched |-> searched,
     found |-> found, returned |-> returned, ok |-> ok]

\* faulty variant: a chunk some sub-question already holds is left out
store_unseen(results, query, chunks) ==
    DictSet(results, query,
            SelectSeq(chunks, LAMBDA c :
                \A i \in 1..Len(results) :
                    results[i].query = query
                    \/ \A j \in 1..Len(results[i].chunks) :
                          results[i].chunks[j].content # c.content))

\* faulty variant: a sub-question without results gets no key
store_nonempty(results, query, chunks) ==
    IF chunks = <<>> THEN results ELSE DictSet(results, query, chunks)

\* results_by_query[query] = results
store_under(results, query, chunks) == DictSet(results, query, chunks)

\* the queries "for query in queries" visits
QueriesOf(sub_qs) == sub_qs.items

---------------------------------------------------------------------------
(* ContextAggregator.format_context: the sentinel, or one block per chunk *)

NoContext == [text |-> "", blocks |-> <<>>]

\* str(v) of an optional int, as an f-string renders it
str(v) == IF v = PyNone THEN "None" ELSE ToString(v)

\* chunk.get('page_number', 'N/A'): the default stands in for a missing key only
page_num(chunk) ==
    IF "page_number" \in DOMAIN chunk THEN str(chunk.page_number) ELSE "N/A"

\* "[Source {i}] Document: {doc_name}, Page: {page_num}, Type: {content_type}\n{content}"
SourceBlock(i, chunk) ==
    [source |-> i,
     document_name |-> chunk.document_name,
     page |-> page_num(chunk),
     content_type |-> chunk.content_type,
     content |-> chunk.content]

\* faulty variant: a chunk equal to the one before it is not rendered again
format_context_compact(chunks) ==
    IF chunks = <<>>
    THEN [text |-> "No relevant context found.", blocks |-> <<>>]
    ELSE LET kept == { i \in 1..Len(chunks) : i = 1 \/ chunks[i] # chunks[i - 1] }
             nth(n) == CHOOSE i \in kept : Cardinality({ j \in kept : j <= i }) = n
         IN [text |-> "",
             blocks |-> [n \in 1..Cardinality(kept) |-> SourceBlock(n, chunks[nth(n)])]]

format_context(chunks) ==
    IF chunks = <<>>
    THEN [text |-> "No relevant context found.", blocks |-> <<>>]
    ELSE [text |-> "",
          blocks |-> [i \in 1..Len(chunks) |-> SourceBlock(i, chunks[i])]]

---------------------------------------------------------------------------
(* AnswerSynthesizer.synthesize *)

\* round(x, 3) on a similarity in units of 1/10000: to the nearest 1/1000, ties to even
round3(x) ==
    LET q == x \div 10
        r == x % 10
    IN IF r < 5 THEN 10 * q
       ELSE IF r > 5 THEN 10 * (q + 1)
       ELSE IF q % 2 = 0 THEN 10 * q ELSE 10 * (q + 1)

\* faulty variant: the sources are listed last chunk first
_format_sources_reversed(chunks) ==
    [i \in 1..Len(chunks) |->
        [document_name |-> chunks[Len(chunks) + 1 - i].document_name,
         page_number |-> chunks[Len(chunks) + 1 - i].page_number,
         content_type |-> chunks[Len(chunks) + 1 - i].content_type,
         similarity |-> round3(chunks[Len(chunks) + 1 - i].similarity)]]

_format_sources(chunks) ==
    [i \in 1..Len(chunks) |->
        [document_name |-> chunks[i].document_name,
         page_number |-> chunks[i].page_number,
         content_type |-> chunks[i].content_type,
         similarity |-> round3(chunks[i].similarity)]]

NoSynthesis == [answer |-> "", sources |-> <<>>, context_used |-> 0]

synthesize(q, context, sources, reply) ==
    IF reply.kind = "fault"
    THEN [answer |-> "Error generating answer: " \o reply.msg,
          sources |-> <<>>,
          context_used |-> 0]
    ELSE [answer |-> strip(reply.content),
          sources |-> _format_sources(sources),
          context_used |-> Len(sources)]

---------------------------------------------------------------------------
(* QueryResponse (app/models.py) and the two ways query_documents ends *)

\* is_complex: bool accepts a bool, 0/1 and the usual yes/no words
BoolWordsTrue == {"1", "on", "t", "true", "y", "yes"}
BoolWordsFalse == {"0", "off", "f", "false", "n", "no"}

ValidBool(v) ==
    \/ v.t = "bool"
    \/ v.t = "num" /\ v.n \in {0, 1}
    \/ v.t = "str" /\ v.s \in BoolWordsTrue \cup BoolWordsFalse

AsBool(v) ==
    CASE v.t = "bool" -> v.b
      [] v.t = "num"  -> v.n = 1
      [] OTHER        -> v.s \in BoolWordsTrue

\* sub_questions: Optional[List[str]]
ValidStrList(v) ==
    \/ v.t = "null"
    \/ v.t = "list" /\ \A i \in 1..Len(v.items) : v.items[i].t = "str"

NoResponse ==
    [kind |-> "none", status_code |-> 0, detail |-> "", question |-> "",
     answer |-> "", is_complex |-> FALSE, sub_questions |-> JNull,
     sources |-> <<>>, total_chunks_retrieved |-> 0, analysis_reasoning |-> JNull]

\* raise HTTPException(status_code=500, detail=f"Query failed: {str(e)}")
HTTPException(msg) ==
    [NoResponse EXCEPT !.kind = "failure", !.status_code = 500,
                       !.detail = "Query failed: " \o msg]

\* QueryResponse(question=..., answer=..., is_complex=..., sub_questions=..., ...)
QueryResponse(q, answer, is_complex, sub_qs, sources, total, reasoning) ==
    IF ValidBool(is_complex) /\ ValidStrList(sub_qs)
    THEN [kind |-> "ok", status_code |-> 200, detail |-> "", question |-> q,
          answer |-> answer, is_complex |-> AsBool(is_complex),
          sub_questions |-> sub_qs, sources |-> sources,
          total_chunks_retrieved |-> total, analysis_reasoning |-> reasoning]
    ELSE HTTPException("validation error for QueryResponse")

---------------------------------------------------------------------------
(* The query cycle: query_documents, one action per stage *)

Call(op, arg) == [op |-> op, arg |-> arg]

Replies(texts) == { Fault(m) : m \in FaultMessages } \cup { Text(c) : c \in texts }

Idle(p) ==
    /\ pc = p
    /\ question \in Questions
    /\ document_filter = ""
    /\ top_k = NoTopK
    /\ max_context_tokens \in 1..MaxTokens
    /\ classifier_reply = NoReply
    /\ analysis = NoAnalysis
    /\ decomposer_reply = NoReply
    /\ sub_questions = JNull
    /\ retr_idx = 0
    /\ retr_results = <<>>
    /\ retr_fault = ""
    /\ aggregated_chunks = <<>>
    /\ formatted_context = NoContext
    /\ synthesizer_reply = NoReply
    /\ synthesis_result = NoSynthesis
    /\ response = NoResponse
    /\ calls = <<>>
    /\ retrievals = <<>>

Init ==
    /\ Idle("analyze")
    /\ results_by_query = <<>>
    /\ suspended = <<>>

\* Step 1 and the branch of step 2: analysis = analyze(question); if is_complex: ...
Analyze ==
    /\ pc = "analyze"
    /\ \E reply \in Replies(ClassifierTexts) :
         LET result == analyze(question, reply)
         IN /\ classifier_reply' = reply
            /\ analysis' = result
            /\ IF Truthy(result.is_complex)
               THEN /\ pc' = "decompose"
                    /\ UNCHANGED <<sub_questions, retr_idx>>
               ELSE /\ pc' = "retrieve"
                    /\ sub_questions' = JList(<<JStr(question)>>)
                    /\ retr_idx' = 1
    /\ calls' = Append(calls, Call("analyze", JStr(question)))
    /\ UNCHANGED <<question, document_filter, top_k, max_context_tokens, suspended, decomposer_reply,
                   retr_results, retr_fault, retrievals, results_by_query, aggregated_chunks,
                   formatted_context, synthesizer_reply, synthesis_result, response>>

\* Step 2: sub_questions = query_decomposer.decompose(question)
Decompose ==
    /\ pc = "decompose"
    /\ \E reply \in Replies(DecomposerTexts) :
         /\ decomposer_reply' = reply
         /\ sub_questions' = decompose(question, reply)
    /\ pc' = "retrieve"
    /\ retr_idx' = 1
    /\ calls' = Append(calls, Call("decompose", JStr(question)))
    /\ UNCHANGED <<question, document_filter, top_k, max_context_tokens, suspended, classifier_reply,
                   analysis, retr_results, retr_fault, retrievals, results_by_query,
                   aggregated_chunks, formatted_context, synthesizer_reply,
                   synthesis_result, response>>

\* faulty variant: the retriever catches the fault and goes on with the next sub-question
RetrieveSwallows(msg) ==
    /\ retr_fault' = msg
    /\ retr_idx' = retr_idx + 1
    /\ UNCHANGED <<pc, response, retr_results>>

\* a fault leaves retrieve_for_multiple_queries and query_documents' try block:
\* except Exception -> HTTPException(500)
RetrieveFails(msg) ==
    /\ retr_fault' = msg
    /\ response' = HTTPException(msg)
    /\ pc' = "failed"
    /\ UNCHANGED <<retr_idx, retr_results>>

\* Step 3, one turn of the loop of retrieve_for_multiple_queries
Retrieve ==
    /\ pc = "retrieve"
    /\ retr_idx <= Len(QueriesOf(sub_questions))
    /\ LET query == QueriesOf(sub_questions)[retr_idx]
           k == limit_of(top_k)
           embedded == <<query>>
           searched == <<SearchCall(Embedding(query), k, document_filter,
                                    SimilarityThreshold)>>
       IN /\ calls' = Append(calls, Call("retrieve", query))
          /\ \/ \* generate_single_embedding raises
                /\ RetrieveFails("embedder unavailable")
                /\ retrievals' = Append(retrievals,
                      Retrieval(query, top_k, document_filter, embedded, <<>>,
                                <<>>, <<>>, FALSE))
             \/ \* near_vector raises; search logs and re-raises
                /\ RetrieveFails("store unavailable")
                /\ retrievals' = Append(retrievals,
                      Retrieval(query, top_k, document_filter, embedded, searched,
                                <<>>, <<>>, FALSE))
             \/ \E objects \in StoreResponses(k, document_filter) :
                  LET results == search(objects, SimilarityThreshold)
                  IN IF query.t # "str"
                     THEN \* query[:50] in the log line raises TypeError
                          /\ RetrieveFails("object is not subscriptable")
                          /\ retrievals' = Append(retrievals,
                                Retrieval(query, top_k, document_filter, embedded,
                                          searched, results, <<>>, FALSE))
                     ELSE /\ retr_results' = store_under(retr_results, query.s, results)
                          /\ retr_idx' = retr_idx + 1
                          /\ retrievals' = Append(retrievals,
                                Retrieval(query, top_k, document_filter, embedded,
                                          searched, results, results, TRUE))
                          /\ UNCHANGED <<pc, retr_fault, response>>
    /\ UNCHANGED <<question, document_filter, top_k, max_context_tokens, suspended, classifier_reply,
                   analysis, decomposer_reply, sub_questions, results_by_query,
                   aggregated_chunks, formatted_context, synthesizer_reply,
                   synthesis_result>>

\* faulty variant: the map is returned as soon as one sub-question has been retrieved
RetrieveReturnsEarly ==
    /\ pc = "retrieve"
    /\ retr_idx > 1 \/ retr_idx > Len(QueriesOf(sub_questions))
    /\ results_by_query' = retr_results
    /\ pc' = "aggregate"
    /\ UNCHANGED <<question, document_filter, top_k, max_context_tokens, suspended, classifier_reply,
                   analysis, decomposer_reply, sub_questions, retr_idx, retr_results,
                   retr_fault, retrievals, aggregated_chunks, formatted_context,
                   synthesizer_reply, synthesis_result, response, calls>>

\* the loop is over: return results_by_query
RetrieveReturn ==
    /\ pc = "retrieve"
    /\ retr_idx > Len(QueriesOf(sub_questions))
    /\ results_by_query' = retr_results
    /\ pc' = "aggregate"
    /\ UNCHANGED <<question, document_filter, top_k, max_context_tokens, suspended, classifier_reply,
                   analysis, decomposer_reply, sub_questions, retr_idx, retr_results,
                   retr_fault, retrievals, aggregated_chunks, formatted_context,
                   synthesizer_reply, synthesis_result, response, calls>>

\* faulty variant: aggregate collects and sorts the chunks in the list of the
\* first sub-question instead of a list of its own
AggregateInPlace ==
    /\ pc = "aggregate"
    /\ aggregated_chunks' = aggregate(results_by_query, max_context_tokens)
    /\ results_by_query' =
         [i \in 1..Len(results_by_query) |->
            IF i = 1
            THEN [query |-> results_by_query[i].query,
                  chunks |-> SortBySimilarity(Dedup(VisitOrder(results_by_query), {}, <<>>),
                                              <<>>)]
            ELSE results_by_query[i]]
    /\ pc' = "format"
    /\ calls' = Append(calls, Call("aggregate", JNull))
    /\ UNCHANGED <<question, document_filter, top_k, max_context_tokens, suspended,
                   classifier_reply, analysis, decomposer_reply, sub_questions,
                   retr_idx, retr_results, retr_fault, retrievals, formatted_context,
                   synthesizer_reply, synthesis_result, response>>

\* Step 4a: aggregated_chunks = context_aggregator.aggregate(results_by_query)
Aggregate ==
    /\ pc = "aggregate"
    /\ aggregated_chunks' = aggregate(results_by_query, max_context_tokens)
    /\ pc' = "format"
    /\ calls' = Append(calls, Call("aggregate", JNull))
    /\ UNCHANGED <<question, document_filter, top_k, max_context_tokens, suspended, classifier_reply,
                   analysis, decomposer_reply, sub_questions, retr_idx, retr_results,
                   retr_fault, retrievals, results_by_query, formatted_context,
                   synthesizer_reply, synthesis_result, response>>

\* Step 4b: formatted_context = context_aggregator.format_context(aggregated_chunks)
FormatContext ==
    /\ pc = "format"
    /\ formatted_context' = format_context(aggregated_chunks)
    /\ pc' = "synthesize"
    /\ calls' = Append(calls, Call("format_context", JNull))
    /\ UNCHANGED <<question, document_filter, top_k, max_context_tokens, suspended, classifier_reply,
                   analysis, decomposer_reply, sub_questions, retr_idx, retr_results,
                   retr_fault, retrievals, results_by_query, aggregated_chunks,
                   synthesizer_reply, synthesis_result, response>>

\* Step 5: synthesis_result = answer_synthesizer.synthesize(...)
Synthesize ==
    /\ pc = "synthesize"
    /\ \E reply \in Replies(SynthesizerTexts) :
         /\ synthesizer_reply' = reply
         /\ synthesis_result' =
              synthesize(question, formatted_context, aggregated_chunks, reply)
    /\ pc' = "respond"
    /\ calls' = Append(calls, Call("synthesize", JStr(question)))
    /\ UNCHANGED <<question, document_filter, top_k, max_context_tokens, suspended, classifier_reply,
                   analysis, decomposer_reply, sub_questions, retr_idx, retr_results,
                   retr_fault, retrievals, results_by_query, aggregated_chunks,
                   formatted_context, response>>

\* faulty variant: a response that fails validation is built again
RespondAgain ==
    /\ pc = "respond"
    /\ LET is_complex == analysis.is_complex
           built == QueryResponse(question, synthesis_result.answer, is_complex,
                                  IF Truthy(is_complex) THEN sub_questions ELSE JNull,
                                  synthesis_result.sources, Len(aggregated_chunks),
                                  analysis.reasoning)
       IN /\ response' = built
          /\ pc' = IF built.kind = "ok" THEN "done" ELSE "respond"
    /\ UNCHANGED <<question, document_filter, top_k, max_context_tokens, suspended,
                   classifier_reply, analysis, decomposer_reply, sub_questions,
                   retr_idx, retr_results, retr_fault, retrievals, results_by_query,
                   aggregated_chunks, formatted_context, synthesizer_reply,
                   synthesis_result, calls>>

\* return QueryResponse(...); a validation error is caught by except Exception
Respond ==
    /\ pc = "respond"
    /\ LET is_complex == analysis.is_complex
           built == QueryResponse(question, synthesis_result.answer, is_complex,
                                  IF Truthy(is_complex) THEN sub_questions ELSE JNull,
                                  synthesis_result.sources, Len(aggregated_chunks),
                                  analysis.reasoning)
       IN /\ response' = built
          /\ pc' = IF built.kind = "ok" THEN "done" ELSE "failed"
    /\ UNCHANGED <<question, document_filter, top_k, max_context_tokens, suspended, classifier_reply,
                   analysis, decomposer_reply, sub_questions, retr_idx, retr_results,
                   retr_fault, retrievals, results_by_query, aggregated_chunks,
                   formatted_context, synthesizer_reply, synthesis_result, calls>>

Next ==
    \/ Analyze
    \/ Decompose
    \/ Retrieve
    \/ RetrieveReturn
    \/ Aggregate
    \/ FormatContext
    \/ Synthesize
    \/ Respond

Spec == Init /\ [][Next]_vars

\* every call to the model, the embedder and the store returns or raises, so
\* the cycle always takes its next step
SpecFair == Init /\ [][Next]_vars /\ WF_vars(Next)

---------------------------------------------------------------------------
(* aggregate on its own: every result map within the bounds, every budget *)

SubQuestionName(i) == "sub-question " \o ToString(i)

\* the result map with k keys whose chunks, in visiting order, are flat,
\* key i holding flat[cut[i-1]+1 .. cut[i]]
MapOf(flat, k, cut) ==
    [i \in 1..k |->
        [query |-> SubQuestionName(i),
         chunks |-> SubSeq(flat, (IF i = 1 THEN 0 ELSE cut[i - 1]) + 1,
                                 IF i = k THEN Len(flat) ELSE cut[i])]]

\* where the keys of a map of k keys over n chunks may end
Cuts(k, n) ==
    { cut \in [1..k - 1 -> 0..n] : \A i \in 1..k - 2 : cut[i] <= cut[i + 1] }

InitAggregate ==
    /\ Idle("aggregate")
    /\ \E k \in 0..MaxSubQ :
         \E flat \in SeqsUpTo(ChunkUniverse, MaxTotal) :
           \E cut \in Cuts(k, Len(flat)) :
             /\ k = 0 => flat = <<>>
             /\ results_by_query = MapOf(flat, k, cut)
    /\ suspended = <<>>

NextAggregate == Aggregate

SpecAggregate == InitAggregate /\ [][NextAggregate]_vars

---------------------------------------------------------------------------
(* retrieve_for_multiple_queries on its own: every list of at most MaxSubQ   *)
(* sub-questions, every top_k (none, 0 .. MaxTopK), with and without filter *)

SubQuestionLists == { JList(qs) : qs \in SeqsUpTo({JStr(QX), JStr(QY)}, MaxSubQ) }

InitRetrieve ==
    /\ pc = "retrieve"
    /\ question \in Questions
    /\ document_filter \in {"", "d1.pdf"}
    /\ top_k \in {PyNone} \cup 0..MaxTopK
    /\ max_context_tokens = MaxTokens
    /\ classifier_reply = NoReply
    /\ analysis = NoAnalysis
    /\ decomposer_reply = NoReply
    /\ sub_questions \in SubQuestionLists
    /\ retr_idx = 1
    /\ retr_results = <<>>
    /\ retr_fault = ""
    /\ results_by_query = <<>>
    /\ aggregated_chunks = <<>>
    /\ formatted_context = NoContext
    /\ synthesizer_reply = NoReply
    /\ synthesis_result = NoSynthesis
    /\ response = NoResponse
    /\ calls = <<>>
    /\ retrievals = <<>>
    /\ suspended = <<>>

NextRetrieve == Retrieve \/ RetrieveReturn

SpecRetrieve == InitRetrieve /\ [][NextRetrieve]_vars

---------------------------------------------------------------------------
(* format_context and synthesize on their own: every sequence of at most *)
(* MaxTotal chunks                                                        *)

InitFormat ==
    /\ pc = "format"
    /\ question \in Questions
    /\ document_filter = ""
    /\ top_k = NoTopK
    /\ max_context_tokens = MaxTokens
    /\ classifier_reply = NoReply
    /\ analysis = NoAnalysis
    /\ decomposer_reply = NoReply
    /\ sub_questions = JNull
    /\ retr_idx = 0
    /\ retr_results = <<>>
    /\ retr_fault = ""
    /\ results_by_query = <<>>
    /\ aggregated_chunks \in SeqsUpTo(ChunkUniverse, MaxTotal)
    /\ formatted_context = NoContext
    /\ synthesizer_reply = NoReply
    /\ synthesis_result = NoSynthesis
    /\ response = NoResponse
    /\ calls = <<>>
    /\ retrievals = <<>>
    /\ suspended = <<>>

NextFormat == FormatContext \/ Synthesize

SpecFormat == InitFormat /\ [][NextFormat]_vars

---------------------------------------------------------------------------
(* Several query cycles in flight.  The locals of query_documents belong to *)
(* one cycle; the components built by startup_event, here the aggregator's  *)
(* max_context_tokens, are shared by all of them.  The cycle that runs is   *)
(* the one whose locals are in the variables; the others wait in suspended. *)

\* cycles in flight at once
MaxCycles == 2

\* the locals of the running cycle
Locals ==
    [pc |-> pc, question |-> question, document_filter |-> document_filter,
     top_k |-> top_k, classifier_reply |-> classifier_reply, analysis |-> analysis,
     decomposer_reply |-> decomposer_reply, sub_questions |-> sub_questions,
     retr_idx |-> retr_idx, retr_results |-> retr_results, retr_fault |-> retr_fault,
     results_by_query |-> results_by_query, aggregated_chunks |-> aggregated_chunks,
     formatted_context |-> formatted_context, synthesizer_reply |-> synthesizer_reply,
     synthesis_result |-> synthesis_result, response |-> response, calls |-> calls,
     retrievals |-> retrievals]

\* the locals of a cycle whose request has just arrived
Arrived(q) ==
    [pc |-> "analyze", question |-> q, document_filter |-> "",
     top_k |-> NoTopK, classifier_reply |-> NoReply, analysis |-> NoAnalysis,
     decomposer_reply |-> NoReply, sub_questions |-> JNull,
     retr_idx |-> 0, retr_results |-> <<>>, retr_fault |-> "",
     results_by_query |-> <<>>, aggregated_chunks |-> <<>>,
     formatted_context |-> NoContext, synthesizer_reply |-> NoReply,
     synthesis_result |-> NoSynthesis, response |-> NoResponse, calls |-> <<>>,
     retrievals |-> <<>>]

\* faulty variant: results_by_query of retrieve_for_multiple_queries is kept on
\* the retriever, so the cycle that resumes finds what the others put there
ResumeOnSharedResults(l) ==
    /\ pc' = l.pc
    /\ question' = l.question
    /\ document_filter' = l.document_filter
    /\ top_k' = l.top_k
    /\ classifier_reply' = l.classifier_reply
    /\ analysis' = l.analysis
    /\ decomposer_reply' = l.decomposer_reply
    /\ sub_questions' = l.sub_questions
    /\ retr_idx' = l.retr_idx
    /\ retr_results' = retr_results
    /\ retr_fault' = l.retr_fault
    /\ results_by_query' = l.results_by_query
    /\ aggregated_chunks' = l.aggregated_chunks
    /\ formatted_context' = l.formatted_context
    /\ synthesizer_reply' = l.synthesizer_reply
    /\ synthesis_result' = l.synthesis_result
    /\ response' = l.response
    /\ calls' = l.calls
    /\ retrievals' = l.retrievals

\* the cycle with locals l goes on where it was
Resume(l) ==
    /\ pc' = l.pc
    /\ question' = l.question
    /\ document_filter' = l.document_filter
    /\ top_k' = l.top_k
    /\ classifier_reply' = l.classifier_reply
    /\ analysis' = l.analysis
    /\ decomposer_reply' = l.decomposer_reply
    /\ sub_questions' = l.sub_questions
    /\ retr_idx' = l.retr_idx
    /\ retr_results' = l.retr_results
    /\ retr_fault' = l.retr_fault
    /\ results_by_query' = l.results_by_query
    /\ aggregated_chunks' = l.aggregated_chunks
    /\ formatted_context' = l.formatted_context
    /\ synthesizer_reply' = l.synthesizer_reply
    /\ synthesis_result' = l.synthesis_result
    /\ response' = l.response
    /\ calls' = l.calls
    /\ retrievals' = l.retrievals

\* another cycle gets to run; the shared components stay as they are
Switch ==
    /\ suspended # <<>>
    /\ Resume(Head(suspended))
    /\ suspended' = Append(Tail(suspended), Locals)
    /\ UNCHANGED max_context_tokens

\* the answers of the model and of the store explored with several cycles
FewAnswers ==
    /\ classifier_reply \in {NoReply, Text(K_true), Text(K_false)}
    /\ decomposer_reply \in {NoReply, Text(D_two)}
    /\ synthesizer_reply \in {NoReply, Text(S_answer)}
    /\ \A i \in 1..Len(retrievals) :
         /\ retrievals[i].ok
         /\ Len(retrievals[i].found) <= 1
         /\ \A j \in 1..Len(retrievals[i].found) :
              /\ retrievals[i].found[j].content = "a"
              /\ retrievals[i].found[j].similarity = 9000

InitConcurrent ==
    /\ Idle("analyze")
    /\ max_context_tokens = MaxTokens
    /\ results_by_query = <<>>
    /\ suspended = [i \in 1..MaxCycles - 1 |-> Arrived(question)]

NextConcurrent ==
    \/ Analyze /\ FewAnswers'
    \/ Decompose /\ FewAnswers'
    \/ Retrieve /\ FewAnswers'
    \/ RetrieveReturn
    \/ Aggregate
    \/ FormatContext
    \/ Synthesize /\ FewAnswers'
    \/ Respond
    \/ Switch

SpecConcurrent == InitConcurrent /\ [][NextConcurrent]_vars

---------------------------------------------------------------------------
(* Vocabulary of the properties *)

Called(op) == \E i \in 1..Len(calls) : calls[i].op = op
TimesCalled(op) == Cardinality({ i \in 1..Len(calls) : calls[i].op = op })

\* a position <<k, j>> of a result map: chunk j of the k-th sub-question
Positions(m) == UNION { { <<k, j>> : j \in 1..Len(m[k].chunks) } : k \in 1..Len(m) }
At(m, p) == m[p[1]].chunks[p[2]]
Earlier(p, q) == p[1] < q[1] \/ (p[1] = q[1] /\ p[2] < q[2])
ContentsIn(m) == { At(m, p).content : p \in Positions(m) }

\* where content c is met first: sub-questions in map order, chunks in store order
FirstPosition(m, c) ==
    CHOOSE p \in Positions(m) :
        /\ At(m, p).content = c
        /\ \A q \in Positions(m) : At(m, q).content = c => (q = p \/ Earlier(p, q))
FirstSeen(m, c) == At(m, FirstPosition(m, c))

Occurrences(chunks, c) == Cardinality({ i \in 1..Len(chunks) : chunks[i].content = c })

RECURSIVE TotalChars(_)
TotalChars(chunks) ==
    IF chunks = <<>> THEN 0 ELSE Len(Head(chunks).content) + TotalChars(Tail(chunks))

RECURSIVE SumOfLengths(_)
SumOfLengths(S) ==
    IF S = {} THEN 0 ELSE LET c == CHOOSE x \in S : TRUE IN Len(c) + SumOfLengths(S \ {c})

\* content c goes before content d: its first-seen chunk has the higher
\* similarity, or the same similarity and was seen earlier
RanksBefore(m, c, d) ==
    \/ FirstSeen(m, c).similarity > FirstSeen(m, d).similarity
    \/ /\ FirstSeen(m, c).similarity = FirstSeen(m, d).similarity
       /\ Earlier(FirstPosition(m, c), FirstPosition(m, d))

\* the first-seen chunks of the contents cs, in that order
RECURSIVE RankedFrom(_, _)
RankedFrom(m, cs) ==
    IF cs = {} THEN <<>>
    ELSE LET top == CHOOSE c \in cs : \A d \in cs \ {c} : RanksBefore(m, c, d)
         IN <<FirstSeen(m, top)>> \o RankedFrom(m, cs \ {top})

\* the deduplicated, similarity-sorted sequence of a result map
Ranked(m) == RankedFrom(m, ContentsIn(m))

Budget == CharsPerToken * max_context_tokens

---------------------------------------------------------------------------
(* C1 - C3: ContextAggregator.aggregate, checked under SpecAggregate *)

\* C1, as claimed: aggregate returns every distinct content of the map exactly
\* once, as the first instance encountered.
C1_EveryContentOnce ==
    Called("aggregate") =>
        \A c \in ContentsIn(results_by_query) :
            /\ Occurrences(aggregated_chunks, c) = 1
            /\ \A i \in 1..Len(aggregated_chunks) :
                 aggregated_chunks[i].content = c =>
                    aggregated_chunks[i] = FirstSeen(results_by_query, c)

\* C1, amended: aggregate returns no content twice, every chunk it returns is the
\* first instance of its content encountered (sub-questions in map order, chunks
\* in store order) with that instance's metadata and similarity, and it returns
\* every distinct content exactly once when the distinct contents together fit
\* into 4 * max_context_tokens characters.
C1_FirstSeenWins ==
    Called("aggregate") =>
        /\ \A i \in 1..Len(aggregated_chunks) :
             /\ aggregated_chunks[i].content \in ContentsIn(results_by_query)
             /\ aggregated_chunks[i] =
                   FirstSeen(results_by_query, aggregated_chunks[i].content)
        /\ \A c \in ContentsIn(results_by_query) :
             /\ Occurrences(aggregated_chunks, c) <= 1
             /\ SumOfLengths(ContentsIn(results_by_query)) <= Budget
                  => Occurrences(aggregated_chunks, c) = 1

\* a content met under two sub-questions, the later instance scoring higher,
\* and the earlier instance is the one returned
C1_Witness ==
    /\ Called("aggregate")
    /\ \E p, q \in Positions(results_by_query) :
         /\ p[1] < q[1]
         /\ At(results_by_query, p).content = At(results_by_query, q).content
         /\ At(results_by_query, q).similarity > At(results_by_query, p).similarity
         /\ p = FirstPosition(results_by_query, At(results_by_query, p).content)
         /\ \E i \in 1..Len(aggregated_chunks) :
              aggregated_chunks[i] = At(results_by_query, p)

\* C2: the sequence aggregate returns is in non-increasing similarity order, and
\* returned chunks of equal similarity stand in the order in which their contents
\* were first met in the map.
C2_SortedStable ==
    Called("aggregate") =>
        \A i, j \in 1..Len(aggregated_chunks) :
            i < j =>
              /\ aggregated_chunks[i].similarity >= aggregated_chunks[j].similarity
              /\ aggregated_chunks[i].similarity = aggregated_chunks[j].similarity
                   => Earlier(FirstPosition(results_by_query, aggregated_chunks[i].content),
                              FirstPosition(results_by_query, aggregated_chunks[j].content))

\* three chunks returned: the sort moved a later one to the front, two tie
C2_Witness ==
    /\ Called("aggregate")
    /\ Len(aggregated_chunks) = 3
    /\ aggregated_chunks[1].similarity > aggregated_chunks[2].similarity
    /\ aggregated_chunks[2].similarity = aggregated_chunks[3].similarity
    /\ Earlier(FirstPosition(results_by_query, aggregated_chunks[2].content),
               FirstPosition(results_by_query, aggregated_chunks[1].content))

\* C3: the chunks aggregate returns are together at most 4 * max_context_tokens
\* characters long, and they are the longest prefix of the deduplicated,
\* similarity-sorted sequence that fits: the next chunk of that sequence, if
\* there is one, would exceed the budget, and nothing behind it is returned.
C3_BudgetPrefix ==
    Called("aggregate") =>
        LET ranked == Ranked(results_by_query)
            n == Len(aggregated_chunks)
        IN /\ TotalChars(aggregated_chunks) <= Budget
           /\ n <= Len(ranked)
           /\ aggregated_chunks = SubSeq(ranked, 1, n)
           /\ n < Len(ranked) => TotalChars(SubSeq(ranked, 1, n + 1)) > Budget

\* packing stopped at a chunk over the budget although a later chunk would fit
C3_Witness ==
    /\ Called("aggregate")
    /\ LET ranked == Ranked(results_by_query)
           n == Len(aggregated_chunks)
       IN /\ n >= 1
          /\ n + 2 <= Len(ranked)
          /\ TotalChars(aggregated_chunks) + Len(ranked[n + 2].content) <= Budget

---------------------------------------------------------------------------
(* C4 - C10: the agents and the order of the stages, checked under Spec *)

OriginalOnly == JList(<<JStr(question)>>)

\* the decomposition the prompt asks for: an object whose sub_questions field
\* is a list of strings
ExpectedDecomposition(reply) ==
    /\ reply.kind = "text"
    /\ json_loads(reply.content).ok
    /\ LET v == json_loads(reply.content).v
       IN /\ v.t = "obj"
          /\ HasKey(v, "sub_questions")
          /\ GetKey(v, "sub_questions").t = "list"
          /\ \A i \in 1..Len(GetKey(v, "sub_questions").items) :
               GetKey(v, "sub_questions").items[i].t = "str"

\* the classification the prompt asks for: {is_complex: boolean, reasoning: string}
ExpectedClassification(reply) ==
    /\ reply.kind = "text"
    /\ json_loads(reply.content).ok
    /\ LET v == json_loads(reply.content).v
       IN /\ v.t = "obj"
          /\ HasKey(v, "is_complex") /\ GetKey(v, "is_complex").t = "bool"
          /\ HasKey(v, "reasoning") /\ GetKey(v, "reasoning").t = "str"

\* C4: when the model's decomposition reply is not the expected structured
\* output, decompose(q) returns exactly [q].
C4_InvalidDecompositionGivesOriginal ==
    (Called("decompose") /\ decomposer_reply.kind = "text"
        /\ ~ExpectedDecomposition(decomposer_reply))
      => sub_questions = OriginalOnly

\* C5: the sub-question set handed to retrieval is never empty, and it is
\* exactly [question] when decomposition is skipped or fails.
C5_SubQuestionsNonEmpty ==
    pc \notin {"analyze", "decompose"} =>
        /\ sub_questions.t = "list"
        /\ Len(sub_questions.items) >= 1
        /\ (~Called("decompose") \/ ~ExpectedDecomposition(decomposer_reply))
              => sub_questions = OriginalOnly

\* C6: when the model's classification reply is not the expected
\* {is_complex: boolean, reasoning: string} structure, analyze returns a verdict
\* that is not complex.
C6_InvalidClassificationIsSimple ==
    (Called("analyze") /\ classifier_reply.kind = "text"
        /\ ~ExpectedClassification(classifier_reply))
      => ~Truthy(analysis.is_complex)

\* a fault was raised inside analyze: by the model call, by json.loads, or by
\* reading is_complex / reasoning off the decoded value
RaisedInAnalyze(reply) ==
    \/ reply.kind = "fault"
    \/ /\ reply.kind = "text"
       /\ \/ ~json_loads(reply.content).ok
          \/ json_loads(reply.content).v.t # "obj"
          \/ ~HasKey(json_loads(reply.content).v, "is_complex")
          \/ ~HasKey(json_loads(reply.content).v, "reasoning")

C8_RetrievalFaultFailsCycle ==
    retr_fault # "" =>
        /\ pc = "failed"
        /\ response.kind = "failure" /\ response.status_code = 500
        /\ response.answer = "" /\ response.sources = <<>>
        /\ results_by_query = <<>>
        /\ calls[Len(calls)].op = "retrieve"
        /\ TimesCalled("retrieve") = retr_idx
        /\ ~Called("aggregate") /\ ~Called("format_context") /\ ~Called("synthesize")

\* the second sub-question faults after the first one retrieved chunks
C8_Witness ==
    /\ retr_fault \in {"embedder unavailable", "store unavailable"}
    /\ retr_idx = 2
    /\ Len(QueriesOf(sub_questions)) = 2
    /\ retr_results # <<>> /\ retr_results[1].chunks # <<>>
    /\ response.kind = "failure"

\* C9: when the model call inside synthesize raises a fault with message m,
\* synthesize returns {answer: "Error generating answer: m", sources: [],
\* context_used: 0} and the cycle ends with a normal response carrying that
\* answer and no sources.
C9_SynthesisFaultStillAnswers ==
    (Called("synthesize") /\ synthesizer_reply.kind = "fault") =>
        /\ synthesis_result =
              [answer |-> "Error generating answer: " \o synthesizer_reply.msg,
               sources |-> <<>>, context_used |-> 0]
        /\ pc # "failed"
        /\ pc = "done" =>
              /\ response.kind = "ok"
              /\ response.answer = "Error generating answer: " \o synthesizer_reply.msg
              /\ response.sources = <<>>

\* the stages of a cycle in the order query_documents runs them, given the
\* verdict and the sub-questions
StagesInOrder ==
    <<Call("analyze", JStr(question))>>
    \o (IF Truthy(analysis.is_complex) THEN <<Call("decompose", JStr(question))>> ELSE <<>>)
    \o [i \in 1..Len(sub_questions.items) |-> Call("retrieve", sub_questions.items[i])]
    \o <<Call("aggregate", JNull), Call("format_context", JNull),
         Call("synthesize", JStr(question))>>

IsPrefix(s, t) == Len(s) <= Len(t) /\ s = SubSeq(t, 1, Len(s))

\* C10: the stages run in a fixed order, each at most once: the classifier
\* first; the decomposer next and only on a complex verdict (on a simple verdict
\* the sub-questions are exactly [question]); then one retrieval per
\* sub-question, in order, all of them before aggregate; then format_context;
\* then synthesize, with the context in hand.
C10_StagesInOrder ==
    /\ pc = "analyze" => calls = <<>>
    /\ pc # "analyze" =>
         /\ TimesCalled("analyze") = 1
         /\ IsPrefix(calls, StagesInOrder)
         /\ ~Truthy(analysis.is_complex) => sub_questions = OriginalOnly
         /\ Called("decompose") => Truthy(analysis.is_complex)
         /\ Called("aggregate") =>
              /\ TimesCalled("retrieve") = Len(sub_questions.items)
              /\ results_by_query = retr_results
         /\ Called("synthesize") =>
              /\ formatted_context # NoContext
              /\ TimesCalled("aggregate") = 1 /\ TimesCalled("format_context") = 1
         /\ \A op \in {"analyze", "decompose", "aggregate", "format_context", "synthesize"} :
              TimesCalled(op) <= 1

\* a decomposed cycle that retrieved for two sub-questions and answered
C10_Witness ==
    /\ pc = "done"
    /\ Called("decompose")
    /\ TimesCalled("retrieve") = 2
    /\ Called("synthesize")

---------------------------------------------------------------------------
(* C11 - C20 *)

\* the decomposer was called on a complex verdict and degraded to [question]:
\* its model call raised, or its reply was not the expected decomposition
DecomposerFellBack ==
    /\ Called("decompose")
    /\ analysis.is_complex = JBool(TRUE)
    /\ decomposer_reply.kind = "fault" \/ ~ExpectedDecomposition(decomposer_reply)
    /\ sub_questions = OriginalOnly

\* the response of the cycle for the same question, model answers and store
\* answers when the question is classified simple
UndecomposedResponse ==
    QueryResponse(question, synthesis_result.answer, JBool(FALSE), JNull,
                  synthesis_result.sources, Len(aggregated_chunks), analysis.reasoning)

\* C11: when the decomposer falls back to [question] after a complex verdict,
\* the cycle goes on as if decomposition never happened: one retrieval, for the
\* question itself; a result map with that single key; it fails only on a
\* retrieval fault; and its response is the response of the same cycle
\* classified simple.
C11_FallbackAsIfUndecomposed ==
    DecomposerFellBack =>
        /\ Len(retrievals) <= 1
        /\ \A i \in 1..Len(retrievals) : retrievals[i].query = JStr(question)
        /\ Called("aggregate") =>
              results_by_query = <<[query |-> question, chunks |-> retrievals[1].returned]>>
        /\ pc = "failed" => retr_fault # ""
        /\ pc = "done" => response = UndecomposedResponse

\* the keys of an insertion-ordered dict, in insertion order
Keys(d) == [i \in 1..Len(d) |-> d[i].query]
DictGet(d, k) == d[CHOOSE i \in 1..Len(d) : d[i].query = k].chunks

\* the distinct sub-questions of a list, in the order of their first submission
RECURSIVE FirstSubmissions(_, _)
FirstSubmissions(queries, seen) ==
    IF queries = <<>> THEN <<>>
    ELSE IF Head(queries).s \in seen
         THEN FirstSubmissions(Tail(queries), seen)
         ELSE <<Head(queries).s>> \o FirstSubmissions(Tail(queries), seen \cup {Head(queries).s})

\* the last call of retrieve that returned for sub-question q
LastRetrieval(q) ==
    retrievals[CHOOSE i \in 1..Len(retrievals) :
                  /\ retrievals[i].query = JStr(q) /\ retrievals[i].ok
                  /\ \A j \in i + 1..Len(retrievals) :
                       ~(retrievals[j].query = JStr(q) /\ retrievals[j].ok)]

\* retrieve_for_multiple_queries has returned its map
Returned == pc = "aggregate" /\ retr_fault = ""

\* C12: the map retrieve_for_multiple_queries returns has a key for every
\* submitted sub-question, the keys standing in submission order, and a
\* sub-question for which nothing was found is a key holding the empty sequence.
C12_KeyPerSubQuestion ==
    Returned =>
        /\ Keys(results_by_query) = FirstSubmissions(QueriesOf(sub_questions), {})
        /\ \A i \in 1..Len(QueriesOf(sub_questions)) :
             LET q == QueriesOf(sub_questions)[i].s
             IN /\ q \in DictKeys(results_by_query)
                /\ LastRetrieval(q).found = <<>> => DictGet(results_by_query, q) = <<>>

\* two sub-questions, the first found nothing, the second found chunks, and the
\* map was returned with both keys
C12_Witness ==
    /\ Returned
    /\ Len(results_by_query) = 2
    /\ results_by_query[1].chunks = <<>>
    /\ results_by_query[2].chunks # <<>>
    /\ results_by_query[1].query = QueriesOf(sub_questions)[1].s

\* C13: each sub-question is retrieved on its own: every call of retrieve gets
\* the caller's top_k and document_filter and asks the store for the full limit,
\* whatever the other sub-questions retrieved; and the sequence kept under a
\* sub-question is exactly what its call of retrieve returned, chunks already
\* held by another sub-question included.
C13_IndependentRetrieval ==
    /\ \A i \in 1..Len(retrievals) :
         /\ retrievals[i].top_k = top_k
         /\ retrievals[i].document_filter = document_filter
         /\ \A n \in 1..Len(retrievals[i].searched) :
              retrievals[i].searched[n].top_k = limit_of(top_k)
    /\ \A i \in 1..Len(retr_results) :
         retr_results[i].chunks = LastRetrieval(retr_results[i].query).returned
    /\ Returned => results_by_query = retr_results

\* two different sub-questions each got the full limit of chunks, the same
\* chunks, and both sequences are in the returned map
C13_Witness ==
    /\ Returned
    /\ Len(results_by_query) = 2
    /\ Len(results_by_query[1].chunks) = limit_of(top_k)
    /\ results_by_query[2].chunks = results_by_query[1].chunks

Sentinel == "No relevant context found."

\* C14: format_context([]) is the fixed sentinel; for a non-empty sequence it
\* renders one block per input chunk, numbered Source 1..N in input order, block
\* i carrying the document name, content type and text of chunk i.
C14_OneBlockPerChunk ==
    Called("format_context") =>
        /\ aggregated_chunks = <<>> =>
              formatted_context = [text |-> Sentinel, blocks |-> <<>>]
        /\ aggregated_chunks # <<>> =>
              /\ formatted_context.text # Sentinel
              /\ Len(formatted_context.blocks) = Len(aggregated_chunks)
              /\ \A i \in 1..Len(aggregated_chunks) :
                   /\ formatted_context.blocks[i].source = i
                   /\ formatted_context.blocks[i].content = aggregated_chunks[i].content
                   /\ formatted_context.blocks[i].document_name =
                         aggregated_chunks[i].document_name
                   /\ formatted_context.blocks[i].content_type =
                         aggregated_chunks[i].content_type

\* a sequence with the same chunk twice in a row, followed by a different one,
\* rendered as three blocks
C14_Witness ==
    /\ Called("format_context")
    /\ Len(aggregated_chunks) = 3
    /\ aggregated_chunks[1] = aggregated_chunks[2]
    /\ aggregated_chunks[3].content # aggregated_chunks[1].content
    /\ Len(formatted_context.blocks) = 3

\* C15: when the model call succeeds, the sources synthesize returns are the
\* projection of its input chunks, one source per chunk in the same order, each
\* with the chunk's document_name, page_number and content_type and its
\* similarity rounded to three decimals, whatever the answer text says; and
\* context_used is the number of input chunks.
C15_SourcesProjectChunks ==
    (Called("synthesize") /\ synthesizer_reply.kind = "text") =>
        /\ Len(synthesis_result.sources) = Len(aggregated_chunks)
        /\ \A i \in 1..Len(aggregated_chunks) :
             synthesis_result.sources[i] =
               [document_name |-> aggregated_chunks[i].document_name,
                page_number |-> aggregated_chunks[i].page_number,
                content_type |-> aggregated_chunks[i].content_type,
                similarity |-> round3(aggregated_chunks[i].similarity)]
        /\ synthesis_result.context_used = Len(aggregated_chunks)

\* the model says the information is not available, cites nothing, and the two
\* different input chunks are still listed, the second with a rounded similarity
C15_Witness ==
    /\ Called("synthesize")
    /\ synthesizer_reply = Text(S_absent)
    /\ Len(aggregated_chunks) = 2
    /\ aggregated_chunks[1].document_name # aggregated_chunks[2].document_name
    /\ Len(synthesis_result.sources) = 2
    /\ synthesis_result.sources[2].similarity # aggregated_chunks[2].similarity

\* retrieval returned a map in which no sub-question holds a chunk
NothingRetrieved ==
    /\ pc \in {"aggregate", "format", "synthesize", "respond", "done", "failed"}
    /\ retr_fault = ""
    /\ \A i \in 1..Len(results_by_query) : results_by_query[i].chunks = <<>>

\* C16: in a cycle where no sub-question retrieves any chunk, aggregate returns
\* the empty sequence, format_context gives the sentinel, synthesize is called
\* exactly once, with the sentinel and no sources, and the cycle ends with a
\* normal response that has no sources.
C16_NothingRetrievedStillAnswers ==
    NothingRetrieved =>
        /\ Called("aggregate") => aggregated_chunks = <<>>
        /\ Called("format_context") =>
              formatted_context = [text |-> Sentinel, blocks |-> <<>>]
        /\ Called("synthesize") => synthesis_result.sources = <<>>
        /\ pc \in {"respond", "done", "failed"} => TimesCalled("synthesize") = 1
        /\ pc # "failed"
        /\ pc = "done" => response.kind = "ok" /\ response.sources = <<>>

\* the result map m with its sub-questions in the order perm
Reordered(m, perm) == [i \in 1..Len(m) |-> m[perm[i]]]

\* no content stands under two different sub-questions
NoCrossDuplicates(m) ==
    \A p, q \in Positions(m) : p[1] # q[1] => At(m, p).content # At(m, q).content

\* no two chunks under different sub-questions have the same similarity
NoCrossTies(m) ==
    \A p, q \in Positions(m) : p[1] # q[1] => At(m, p).similarity # At(m, q).similarity

\* aggregate gives the same sequence for every ordering of the sub-questions
SameForEveryOrdering ==
    \A perm \in Permutations(1..Len(results_by_query)) :
        aggregate(Reordered(results_by_query, perm), max_context_tokens) = aggregated_chunks

\* C17, as claimed: for a result map with no content duplicated across
\* sub-questions, aggregate returns the same sequence for every ordering of the
\* sub-questions.
C17_OrderIndependent ==
    (Called("aggregate") /\ NoCrossDuplicates(results_by_query)) => SameForEveryOrdering

\* C17, amended: for a result map with no content duplicated across
\* sub-questions and no two chunks of equal similarity under different
\* sub-questions, aggregate returns the same sequence for every ordering of the
\* sub-questions.
C17_OrderIndependentWithoutTies ==
    (Called("aggregate") /\ NoCrossDuplicates(results_by_query)
        /\ NoCrossTies(results_by_query)) => SameForEveryOrdering

\* two sub-questions with different chunks, the second one's scoring higher and
\* returned first
C17_Witness ==
    /\ Called("aggregate")
    /\ NoCrossDuplicates(results_by_query)
    /\ NoCrossTies(results_by_query)
    /\ Len(results_by_query) = 2
    /\ results_by_query[1].chunks # <<>>
    /\ results_by_query[2].chunks # <<>>
    /\ Len(aggregated_chunks) >= 2
    /\ aggregated_chunks[1] = results_by_query[2].chunks[1]

\* every cycle in flight: the running one, then the suspended ones
Cycles == <<Locals>> \o suspended

\* the map retrieve_for_multiple_queries builds from what retrieve returned
RECURSIVE RetrievedMap(_, _, _)
RetrievedMap(queries, returns, results) ==
    IF queries = <<>> \/ returns = <<>> THEN results
    ELSE RetrievedMap(Tail(queries), Tail(returns),
                      store_under(results, Head(queries).s, Head(returns).returned))

\* the response of the cycle with locals l when it runs alone and gets the
\* same answers from the model, the embedder and the store
AloneResponse(l) ==
    LET an == analyze(l.question, l.classifier_reply)
        subs == IF Truthy(an.is_complex)
                THEN decompose(l.question, l.decomposer_reply)
                ELSE JList(<<JStr(l.question)>>)
        map == RetrievedMap(QueriesOf(subs), l.retrievals, <<>>)
        chunks == aggregate(map, max_context_tokens)
        syn == synthesize(l.question, format_context(chunks), chunks, l.synthesizer_reply)
    IN IF \E i \in 1..Len(l.retrievals) : ~l.retrievals[i].ok
       THEN HTTPException(l.retr_fault)
       ELSE QueryResponse(l.question, syn.answer, an.is_complex,
                          IF Truthy(an.is_complex) THEN subs ELSE JNull,
                          syn.sources, Len(chunks), an.reasoning)

\* C18: with several query cycles in flight and any interleaving of their
\* stages, no step writes a field of a component (max_context_tokens stays as
\* startup set it), and every cycle that has ended has the response it produces
\* when run alone with the same answers of the model, the embedder and the store.
C18_CyclesShareNothing ==
    /\ [][max_context_tokens' = max_context_tokens]_vars
    /\ [](\A i \in 1..Len(Cycles) :
            Cycles[i].pc \in {"done", "failed"} =>
                Cycles[i].response = AloneResponse(Cycles[i]))

\* a cycle ended with an answer and sources while another cycle, decomposed and
\* holding chunks for its first sub-question, is halfway through retrieval
C18_Witness ==
    /\ pc = "done"
    /\ response.kind = "ok" /\ response.sources # <<>>
    /\ \E i \in 1..Len(suspended) :
         /\ suspended[i].pc = "retrieve"
         /\ suspended[i].retr_idx = 2
         /\ Len(QueriesOf(suspended[i].sub_questions)) = 2
         /\ suspended[i].retr_results # <<>>
         /\ suspended[i].retr_results[1].chunks # <<>>

\* what the claim says retrieve hands to the store as top_k: the caller's when
\* one is given, the configured default when none is
ClaimedLimit(k) == IF k # PyNone THEN k ELSE self_top_k

\* C19: every call retrieve(query, top_k, document_filter) calls the embedder
\* exactly once, with query; then, unless the embedder raised, the store exactly
\* once, with that vector, the caller's top_k when one is supplied (the
\* configured default only when none is), the caller's document_filter and the
\* configured similarity floor; and what it returns is the store's sequence,
\* unchanged.
C19_RetrievePassesArguments ==
    \A i \in 1..Len(retrievals) :
        LET r == retrievals[i]
        IN /\ r.embedded = <<r.query>>
           /\ Len(r.searched) <= 1
           /\ \A n \in 1..Len(r.searched) :
                r.searched[n] = SearchCall(Embedding(r.query), ClaimedLimit(r.top_k),
                                           r.document_filter, SimilarityThreshold)
           /\ r.ok => Len(r.searched) = 1 /\ r.returned = r.found

\* the marker format_context has for a page number that is not there
FallbackMarker == "N/A"

\* the chunk has no page number: its page_number is None, or it is a stored
\* chunk that was handed to add_chunks with page_number None
PageAbsent(chunk) ==
    \/ chunk.page_number = PyNone
    \/ \E ingested \in IngestedChunks :
         /\ ingested.content = chunk.content
         /\ ingested.metadata.document_name = chunk.document_name
         /\ ingested.metadata.content_type = chunk.content_type
         /\ ingested.metadata.page_number = PyNone

\* C20: for every chunk whose page number is absent, format_context renders the
\* fallback marker in the chunk's Source block, also when the chunk went through
\* the store's add_chunks and search.
C20_AbsentPageGetsMarker ==
    (Called("format_context") /\ aggregated_chunks # <<>>) =>
        \A i \in 1..Len(aggregated_chunks) :
            PageAbsent(aggregated_chunks[i]) =>
                formatted_context.blocks[i].page = FallbackMarker

---------------------------------------------------------------------------
(* C21 - C24 *)

\* the chunks stand as the store ranks them: nearest, that is most similar, first
InStoreOrder(chunks) ==
    \A i \in 1..Len(chunks) - 1 : chunks[i].similarity >= chunks[i + 1].similarity

AtOrAboveFloor(chunks) ==
    \A i \in 1..Len(chunks) : chunks[i].similarity >= SimilarityThreshold

\* C21: every sequence of the result map, while it is built and when it is
\* returned, has at most top_k chunks (the limit retrieve hands to the store),
\* all of similarity at or above the configured floor, in the order the store
\* ranked them; hence every chunk of the aggregated context and every source of
\* a response has a similarity at or above the floor.
C21_WithinLimitAboveFloor ==
    /\ \A m \in {retr_results, results_by_query} :
         \A i \in 1..Len(m) :
            /\ Len(m[i].chunks) <= limit_of(top_k)
            /\ AtOrAboveFloor(m[i].chunks)
            /\ InStoreOrder(m[i].chunks)
    /\ AtOrAboveFloor(aggregated_chunks)
    /\ AtOrAboveFloor(synthesis_result.sources)
    /\ AtOrAboveFloor(response.sources)

\* the cycle answered with two sources, the second one's similarity just above
\* the floor and rounded down to it
C21_Witness ==
    /\ pc = "done"
    /\ Len(response.sources) = 2
    /\ response.sources[2].similarity = SimilarityThreshold
    /\ aggregated_chunks[2].similarity > SimilarityThreshold
    /\ \E i \in 1..Len(results_by_query) :
         Len(results_by_query[i].chunks) = limit_of(top_k)

\* C22: aggregate, format_context and synthesize leave what they are given as it
\* is: across each of these calls the result map keeps its keys, their order,
\* every sequence and every field of every chunk, and across format_context and
\* synthesize the aggregated chunks stay as aggregate returned them.
C22_InputsUnchanged ==
    [][/\ pc \in {"aggregate", "format", "synthesize"} =>
            results_by_query' = results_by_query
       /\ pc \in {"format", "synthesize"} =>
            aggregated_chunks' = aggregated_chunks]_vars

\* all three have returned; the second sub-question holds the higher-scoring
\* chunk, which aggregate put first, and the map still has both chunks where
\* retrieval put them
C22_Witness ==
    /\ Called("aggregate") /\ Called("format_context") /\ Called("synthesize")
    /\ Len(results_by_query) = 2
    /\ Len(results_by_query[1].chunks) = 1
    /\ Len(results_by_query[2].chunks) = 1
    /\ results_by_query[1].chunks[1].similarity < results_by_query[2].chunks[1].similarity
    /\ aggregated_chunks = <<results_by_query[2].chunks[1], results_by_query[1].chunks[1]>>
    /\ results_by_query = retr_results

Ended == pc \in {"done", "failed"}

\* C23: when every call to the model, the embedder and the store returns or
\* raises, the cycle ends, and it ends in exactly one way: with a normal
\* response, after synthesize returned, or with a surfaced failure; until then
\* the caller has received nothing, and what it received stays.
C23_CycleEndsOneWay ==
    /\ <>Ended
    /\ [](pc = "done" =>
            /\ response.kind = "ok" /\ response.status_code = 200
            /\ Called("synthesize") /\ response.answer = synthesis_result.answer)
    /\ [](pc = "failed" =>
            /\ response.kind = "failure" /\ response.status_code = 500
            /\ response.answer = "")
    /\ [](~Ended => response = NoResponse)
    /\ [][Ended => (pc' = pc /\ response' = response)]_vars

\* the cycle ended with a failure after synthesize had returned: the response
\* was refused by its model, no answer went out
C23_Witness ==
    /\ pc = "failed"
    /\ Called("synthesize")
    /\ synthesis_result.answer # ""
    /\ retr_fault = ""
    /\ response.kind = "failure"

\* the top-ranked chunk of the result map is by itself over the budget
TopOverBudget(m) == ContentsIn(m) # {} /\ Len(Ranked(m)[1].content) > Budget

\* C24: aggregate returns the empty sequence exactly when the result map holds
\* no chunk at all or the content of the top-ranked chunk is by itself longer
\* than 4 * max_context_tokens; in the second case format_context gives the
\* sentinel and synthesize works from it, with no sources, although chunks
\* were retrieved.
C24_EmptyExactlyWhen ==
    Called("aggregate") =>
        /\ aggregated_chunks = <<>> <=>
              (ContentsIn(results_by_query) = {} \/ TopOverBudget(results_by_query))
        /\ TopOverBudget(results_by_query) =>
              /\ Called("format_context") =>
                    formatted_context = [text |-> Sentinel, blocks |-> <<>>]
              /\ pc = "synthesize" => formatted_context.text = Sentinel
              /\ Called("synthesize") =>
                    /\ TimesCalled("synthesize") = 1
                    /\ synthesis_result.sources = <<>>
                    /\ synthesis_result.context_used = 0

\* two chunks were retrieved, the shorter would fit the budget, the top-ranked
\* one does not: the answer was synthesized from the sentinel
C24_Witness ==
    /\ pc = "done"
    /\ Called("synthesize")
    /\ TopOverBudget(results_by_query)
    /\ Cardinality(ContentsIn(results_by_query)) = 2
    /\ \E c \in ContentsIn(results_by_query) : Len(c) <= Budget
    /\ aggregated_chunks = <<>>
    /\ formatted_context.text = Sentinel
    /\ response.kind = "ok" /\ response.sources = <<>>

====
